---- MODULE Spec2Model ----
(***************************************************************************)
(* Eco+ Global Air Quality Monitoring System (eco-plus/app.py).            *)
(*                                                                         *)
(* The model covers the simulation + store core: the reading generator     *)
(* (simulate_sensor_reading with predict_aqi and check_alerts), the two    *)
(* process-wide dictionaries current_readings and reading_history, the     *)
(* background refresh thread update_readings, the start-up initialisation  *)
(* of the __main__ block, and the read-only request handlers.              *)
(*                                                                         *)
(* Numbers: every measurement is kept in hundredths of its unit, so that   *)
(* 35.4 is 3540 and 0.1 is 10.  random.uniform is a deterministic          *)
(* generator with a seed: state rng, NoiseLevels evenly spaced sample      *)
(* points per draw.  datetime.now() is the logical clock `clock`, one tick *)
(* per generated reading; a reading's timestamp is its generation order.   *)
(*                                                                         *)
(* Atomicity: one action per Python statement that touches shared state.   *)
(* Line 366 reads current_readings and then stores into reading_history,   *)
(* and is split into its load and its store.  The body of                  *)
(* simulate_sensor_reading works on a local dict and is split into the     *)
(* construction of the measurements and the enrichment.                    *)
(***************************************************************************)
EXTENDS Integers, Sequences, FiniteSets, TLC

VARIABLES
    current_readings,   \* app.py:15  dict city -> reading
    reading_history,    \* app.py:16  dict city -> list of readings
    refresh_pc,         \* position of the thread running update_readings
    refresh_i,          \* index of `city` in the for loop of update_readings
    new_reading,        \* local new_reading of update_readings
    cycle,              \* number of for-loops update_readings has started
    main_pc,            \* position of the main thread in the __main__ block
    main_i,             \* index of `city` in the for loop of __main__
    main_reading,       \* reading under construction by the main thread
    main_loaded,        \* value loaded by current_readings[city] on line 366
    clock,              \* datetime.now(): generation order of readings
    rng,                \* state of the process-wide random generator
    hour,               \* datetime.now().hour
    resp,               \* what the request handler of the last step returned
    commit_log          \* history variable: per city, every reading stored
                        \* into its current slot, in order

vars == <<current_readings, reading_history, refresh_pc, refresh_i, new_reading,
          cycle, main_pc, main_i, main_reading, main_loaded, clock, rng, hour,
          resp, commit_log>>

store == <<current_readings, reading_history>>

(***************************************************************************)
(* Bounds of the exploration.                                              *)
(***************************************************************************)
\* how many of the configured cities are monitored
NumCities == 2
\* refresh cycles explored when the module is imported (no __main__ block)
MaxCycles == 60
\* readings the refresh thread generates when the module is run as __main__
MaxCommitsMain == 3
\* sample points of one uniform draw
NoiseLevels == 3

(***************************************************************************)
(* Program constants.                                                      *)
(***************************************************************************)
CityList == <<"New York", "London", "Tokyo", "Delhi", "Beijing", "Paris", "Sydney", "Dubai">>

cities == SubSeq(CityList, 1, NumCities)

CitySet == {cities[i] : i \in 1..Len(cities)}

\* a city name that is not configured, for the request handlers
UnknownCity == "Atlantis"

MAX_HISTORY == 50

HISTORY_SLICE == 20

\* ALERT_THRESHOLDS, in dict order, in hundredths
ALERT_THRESHOLDS == <<[pollutant |-> "PM2_5", threshold |-> 3500],
                      [pollutant |-> "PM10",  threshold |-> 5000],
                      [pollutant |-> "NO2",   threshold |-> 4000],
                      [pollutant |-> "CO",    threshold |-> 200],
                      [pollutant |-> "SO2",   threshold |-> 2000]>>

DefaultProfile == [pm25_base |-> 30, variation |-> 15, temp_base |-> 22, humidity_base |-> 60]

city_profiles(city) ==
    CASE city = "New York" -> [pm25_base |-> 25, variation |-> 10, temp_base |-> 22, humidity_base |-> 60]
      [] city = "London"   -> [pm25_base |-> 20, variation |-> 8,  temp_base |-> 15, humidity_base |-> 75]
      [] city = "Tokyo"    -> [pm25_base |-> 30, variation |-> 12, temp_base |-> 18, humidity_base |-> 65]
      [] city = "Delhi"    -> [pm25_base |-> 80, variation |-> 30, temp_base |-> 28, humidity_base |-> 45]
      [] city = "Beijing"  -> [pm25_base |-> 60, variation |-> 25, temp_base |-> 20, humidity_base |-> 50]
      [] city = "Paris"    -> [pm25_base |-> 22, variation |-> 9,  temp_base |-> 17, humidity_base |-> 70]
      [] city = "Sydney"   -> [pm25_base |-> 18, variation |-> 7,  temp_base |-> 25, humidity_base |-> 55]
      [] city = "Dubai"    -> [pm25_base |-> 45, variation |-> 15, temp_base |-> 32, humidity_base |-> 40]
      [] OTHER             -> DefaultProfile

\* hours of the day the exploration starts in: night, rush hour, midday
Hours == {3, 8, 12}

(***************************************************************************)
(* Pure helpers.                                                           *)
(***************************************************************************)
Max(a, b) == IF a >= b THEN a ELSE b

Min(a, b) == IF a <= b THEN a ELSE b

\* lst[-n:] of Python for n > 0
LastN(lst, n) == SubSeq(lst, Len(lst) - Min(n, Len(lst)) + 1, Len(lst))

\* mutant of PopFirst: lst.pop(), which drops the newest element
PopLast(lst) == SubSeq(lst, 1, Len(lst) - 1)

\* lst.pop(0): the list without its first element
PopFirst(lst) == Tail(lst)

\* the k-th draw of random.uniform(lo, hi) from generator state s
Uniform(lo, hi, s, k) == lo + ((hi - lo) * ((s + k) % NoiseLevels)) \div (NoiseLevels - 1)

\* draws one call of simulate_sensor_reading makes
DrawsPerReading == 8

\* round(x, 1) on hundredths: to the nearest tenth, ties to even
Round1(x) ==
    LET q == x \div 10
        r == x % 10
    IN  IF r < 5 THEN q * 10
        ELSE IF r > 5 THEN (q + 1) * 10
        ELSE IF q % 2 = 0 THEN q * 10 ELSE (q + 1) * 10

\* time_factor in tenths, from the hour
time_factor(h) ==
    IF (7 <= h /\ h <= 9) \/ (16 <= h /\ h <= 18) THEN 13
    ELSE IF 0 <= h /\ h <= 5 THEN 7
    ELSE 10

\* mutant of predict_aqi: the first bound is exclusive
predict_aqi_exclusive(pm25) ==
    IF pm25 < 1200 THEN
        [category |-> "Good", color |-> "#00E400", description |-> "Air quality is satisfactory"]
    ELSE IF pm25 <= 3540 THEN
        [category |-> "Moderate", color |-> "#FFFF00", description |-> "Acceptable quality"]
    ELSE IF pm25 <= 5540 THEN
        [category |-> "Unhealthy for Sensitive Groups", color |-> "#FF7E00",
         description |-> "Members of sensitive groups may experience health effects"]
    ELSE IF pm25 <= 15040 THEN
        [category |-> "Unhealthy", color |-> "#FF0000", description |-> "Everyone may experience health effects"]
    ELSE IF pm25 <= 25040 THEN
        [category |-> "Very Unhealthy", color |-> "#8F3F97",
         description |-> "Health alert: everyone may experience more serious health effects"]
    ELSE
        [category |-> "Hazardous", color |-> "#7E0023", description |-> "Health warnings of emergency conditions"]

predict_aqi(pm25) ==
    IF pm25 <= 1200 THEN
        [category |-> "Good", color |-> "#00E400", description |-> "Air quality is satisfactory"]
    ELSE IF pm25 <= 3540 THEN
        [category |-> "Moderate", color |-> "#FFFF00", description |-> "Acceptable quality"]
    ELSE IF pm25 <= 5540 THEN
        [category |-> "Unhealthy for Sensitive Groups", color |-> "#FF7E00",
         description |-> "Members of sensitive groups may experience health effects"]
    ELSE IF pm25 <= 15040 THEN
        [category |-> "Unhealthy", color |-> "#FF0000", description |-> "Everyone may experience health effects"]
    ELSE IF pm25 <= 25040 THEN
        [category |-> "Very Unhealthy", color |-> "#8F3F97",
         description |-> "Health alert: everyone may experience more serious health effects"]
    ELSE
        [category |-> "Hazardous", color |-> "#7E0023", description |-> "Health warnings of emergency conditions"]

\* reading.get(pollutant, 0)
ReadingGet(reading, key) == IF key \in DOMAIN reading THEN reading[key] ELSE 0

RECURSIVE AlertsFrom(_, _)
AlertsFrom(reading, i) ==
    IF i > Len(ALERT_THRESHOLDS) THEN <<>>
    ELSE LET pollutant == ALERT_THRESHOLDS[i].pollutant
             threshold == ALERT_THRESHOLDS[i].threshold
             value     == ReadingGet(reading, pollutant)
         IN  IF value > threshold
             THEN <<[pollutant |-> pollutant, value |-> value, threshold |-> threshold,
                     severity |-> IF 2 * value > 3 * threshold THEN "high" ELSE "medium"]>>
                  \o AlertsFrom(reading, i + 1)
             ELSE AlertsFrom(reading, i + 1)

\* mutant of check_alerts: a value equal to its threshold raises an alert
RECURSIVE AlertsFromInclusive(_, _)
AlertsFromInclusive(reading, i) ==
    IF i > Len(ALERT_THRESHOLDS) THEN <<>>
    ELSE LET pollutant == ALERT_THRESHOLDS[i].pollutant
             threshold == ALERT_THRESHOLDS[i].threshold
             value     == ReadingGet(reading, pollutant)
         IN  IF value >= threshold
             THEN <<[pollutant |-> pollutant, value |-> value, threshold |-> threshold,
                     severity |-> IF 2 * value > 3 * threshold THEN "high" ELSE "medium"]>>
                  \o AlertsFromInclusive(reading, i + 1)
             ELSE AlertsFromInclusive(reading, i + 1)

check_alerts_inclusive(reading) == AlertsFromInclusive(reading, 1)

check_alerts(reading) == AlertsFrom(reading, 1)

\* lines 83-109 of simulate_sensor_reading: the dict of measurements
Measurements(city, now, h, s) ==
    LET profile   == city_profiles(city)
        tf        == time_factor(h)
        base_pm25 == profile.pm25_base * tf * 10
                     + Uniform(-(profile.variation * 100), profile.variation * 100, s, 0)
    IN  [city        |-> city,
         timestamp   |-> now,
         PM2_5       |-> Max(500, base_pm25),
         PM10        |-> Max(1000, (base_pm25 * 3) \div 2 + Uniform(-1000, 1000, s, 1)),
         NO2         |-> Max(500, 2000 + (Uniform(-800, 800, s, 2) * tf) \div 10),
         CO          |-> Max(10, 80 + (Uniform(-30, 30, s, 3) * tf) \div 10),
         SO2         |-> Max(100, 1000 + Uniform(-500, 500, s, 4)),
         O3          |-> Max(1000, 3500 + Uniform(-1500, 1500, s, 5)),
         Temperature |-> Round1(profile.temp_base * 100 + Uniform(-500, 500, s, 6)),
         Humidity    |-> Round1(profile.humidity_base * 100 + Uniform(-1500, 1500, s, 7))]

\* mutant of Enrich: the category is taken from the coarse particulate value
EnrichFromPM10(reading) ==
    LET aqi  == predict_aqi(reading.PM10)
        with == reading @@ [AQI_Category |-> aqi.category, AQI_Color |-> aqi.color,
                            AQI_Description |-> aqi.description, PM2_5_compat |-> reading.PM2_5]
    IN  with @@ [alerts |-> check_alerts(with)]

\* lines 112-119 of simulate_sensor_reading: category and alerts are added
Enrich(reading) ==
    LET aqi  == predict_aqi(reading.PM2_5)
        with == reading @@ [AQI_Category |-> aqi.category, AQI_Color |-> aqi.color,
                            AQI_Description |-> aqi.description, PM2_5_compat |-> reading.PM2_5]
    IN  with @@ [alerts |-> check_alerts(with)]

simulate_sensor_reading(city, now, h, s) == Enrich(Measurements(city, now, h, s))

MeasurementKeys == {"city", "timestamp", "PM2_5", "PM10", "NO2", "CO", "SO2", "O3",
                    "Temperature", "Humidity"}

ReadingKeys == MeasurementKeys \cup {"AQI_Category", "AQI_Color", "AQI_Description",
                                     "PM2_5_compat", "alerts"}

\* a variable that holds no reading yet
NoReading == [city |-> "none"]

NoResponse == [city |-> "", route |-> "none", status |-> 0, body |-> <<>>]


\* d[k] = v on a Python dict
SetItem(d, k, v) == [x \in DOMAIN d \cup {k} |-> IF x = k THEN v ELSE d[x]]

EmptyDict == [x \in {} |-> NoReading]

(***************************************************************************)
(* Initial state: the module has been loaded up to line 145, the refresh   *)
(* thread has been started, both dictionaries are empty.  The module is    *)
(* either run as a script (the __main__ block follows) or imported by a    *)
(* server (it does not).                                                   *)
(***************************************************************************)
Init ==
    /\ current_readings = EmptyDict
    /\ reading_history = EmptyDict
    /\ refresh_pc = "gen"
    /\ refresh_i = 1
    /\ new_reading = NoReading
    /\ cycle = 1
    /\ main_pc \in {"imported", "gen"}
    /\ main_i = 1
    /\ main_reading = NoReading
    /\ main_loaded = NoReading
    /\ clock = 0
    /\ rng = 0
    /\ hour \in Hours
    /\ resp = NoResponse
    /\ commit_log = [c \in CitySet |-> <<>>]

\* readings the refresh thread has generated or is about to generate
RefreshCommits == (cycle - 1) * Len(cities) + refresh_i

WithinBounds == main_pc = "imported" \/ RefreshCommits <= MaxCommitsMain

(***************************************************************************)
(* The refresh thread: update_readings.                                    *)
(***************************************************************************)
refresh_city == cities[refresh_i]

RefreshLocals == <<refresh_i, cycle>>
MainLocals == <<main_pc, main_i, main_reading, main_loaded>>

\* mutant of RefreshAdvance: the loop stops one city short
RefreshAdvanceShort ==
    IF refresh_i + 1 < Len(cities)
    THEN /\ refresh_i' = refresh_i + 1
         /\ refresh_pc' = "gen"
    ELSE /\ refresh_i' = refresh_i
         /\ refresh_pc' = "sleep"

\* the end of the for body: the next city, or the sleep after the last one
RefreshAdvance ==
    IF refresh_i < Len(cities)
    THEN /\ refresh_i' = refresh_i + 1
         /\ refresh_pc' = "gen"
    ELSE /\ refresh_i' = refresh_i
         /\ refresh_pc' = "sleep"

\* mutant of RefreshGenerate: the dict of measurements is stored into the
\* current slot before it is enriched
RefreshGeneratePublishing ==
    /\ refresh_pc = "gen"
    /\ WithinBounds
    /\ clock' = clock + 1
    /\ new_reading' = Measurements(refresh_city, clock', hour, rng)
    /\ current_readings' = SetItem(current_readings, refresh_city, new_reading')
    /\ rng' = (rng + DrawsPerReading) % NoiseLevels
    /\ refresh_pc' = "enrich"
    /\ resp' = NoResponse
    /\ UNCHANGED <<reading_history, RefreshLocals, MainLocals, hour, commit_log>>

\* line 130, the call: lines 83-109 of simulate_sensor_reading
RefreshGenerate ==
    /\ refresh_pc = "gen"
    /\ WithinBounds
    /\ clock' = clock + 1
    /\ new_reading' = Measurements(refresh_city, clock', hour, rng)
    /\ rng' = (rng + DrawsPerReading) % NoiseLevels
    /\ refresh_pc' = "enrich"
    /\ resp' = NoResponse
    /\ UNCHANGED <<store, RefreshLocals, MainLocals, hour, commit_log>>

\* line 130, the rest of the call and the assignment: lines 112-121
RefreshEnrich ==
    /\ refresh_pc = "enrich"
    /\ new_reading' = Enrich(new_reading)
    /\ refresh_pc' = "setcur"
    /\ resp' = NoResponse
    /\ UNCHANGED <<store, RefreshLocals, MainLocals, clock, rng, hour, commit_log>>

\* mutant of RefreshSetCurrent: the dict is rebound to a fresh one,
\* current_readings = {city: new_reading}
RefreshSetCurrentRebind ==
    /\ refresh_pc = "setcur"
    /\ current_readings' = [x \in {refresh_city} |-> new_reading]
    /\ commit_log' = [commit_log EXCEPT ![refresh_city] = Append(@, new_reading)]
    /\ refresh_pc' = "chk"
    /\ resp' = NoResponse
    /\ UNCHANGED <<reading_history, new_reading, RefreshLocals, MainLocals, clock, rng, hour>>

\* line 131
RefreshSetCurrent ==
    /\ refresh_pc = "setcur"
    /\ current_readings' = SetItem(current_readings, refresh_city, new_reading)
    /\ commit_log' = [commit_log EXCEPT ![refresh_city] = Append(@, new_reading)]
    /\ refresh_pc' = "chk"
    /\ resp' = NoResponse
    /\ UNCHANGED <<reading_history, new_reading, RefreshLocals, MainLocals, clock, rng, hour>>

\* lines 134-135
RefreshInitHistory ==
    /\ refresh_pc = "chk"
    /\ reading_history' = IF refresh_city \notin DOMAIN reading_history
                          THEN SetItem(reading_history, refresh_city, <<>>)
                          ELSE reading_history
    /\ refresh_pc' = "append"
    /\ resp' = NoResponse
    /\ UNCHANGED <<current_readings, new_reading, RefreshLocals, MainLocals, clock, rng, hour, commit_log>>

\* mutant of RefreshAppend: every city's history is the same list object
RefreshAppendShared ==
    /\ refresh_pc = "append"
    /\ reading_history' = [c \in DOMAIN reading_history |-> Append(reading_history[c], new_reading)]
    /\ refresh_pc' = "len"
    /\ resp' = NoResponse
    /\ UNCHANGED <<current_readings, new_reading, RefreshLocals, MainLocals, clock, rng, hour, commit_log>>

\* line 136
RefreshAppend ==
    /\ refresh_pc = "append"
    /\ reading_history' = [reading_history EXCEPT ![refresh_city] = Append(@, new_reading)]
    /\ refresh_pc' = "len"
    /\ resp' = NoResponse
    /\ UNCHANGED <<current_readings, new_reading, RefreshLocals, MainLocals, clock, rng, hour, commit_log>>

\* line 137, and the end of the for body when the test is false
RefreshCheckLen ==
    /\ refresh_pc = "len"
    /\ IF Len(reading_history[refresh_city]) > MAX_HISTORY
       THEN /\ refresh_pc' = "pop"
            /\ refresh_i' = refresh_i
       ELSE RefreshAdvance
    /\ resp' = NoResponse
    /\ UNCHANGED <<store, new_reading, cycle, MainLocals, clock, rng, hour, commit_log>>

\* line 138, and the end of the for body
RefreshPop ==
    /\ refresh_pc = "pop"
    /\ reading_history' = [reading_history EXCEPT ![refresh_city] = PopFirst(@)]
    /\ RefreshAdvance
    /\ resp' = NoResponse
    /\ UNCHANGED <<current_readings, new_reading, cycle, MainLocals, clock, rng, hour, commit_log>>

\* mutant of RefreshSleep: update_readings returns after its first cycle
RefreshSleepReturns ==
    /\ refresh_pc = "sleep"
    /\ cycle < MaxCycles
    /\ refresh_pc' = "returned"
    /\ resp' = NoResponse
    /\ UNCHANGED <<store, refresh_i, new_reading, cycle, MainLocals, clock, rng, hour, commit_log>>

\* line 141, and the next turn of while True
RefreshSleep ==
    /\ refresh_pc = "sleep"
    /\ cycle < MaxCycles
    /\ cycle' = cycle + 1
    /\ refresh_i' = 1
    /\ refresh_pc' = "gen"
    /\ resp' = NoResponse
    /\ UNCHANGED <<store, new_reading, MainLocals, clock, rng, hour, commit_log>>

Refresh ==
    \/ RefreshGenerate
    \/ RefreshEnrich
    \/ RefreshSetCurrent
    \/ RefreshInitHistory
    \/ RefreshAppend
    \/ RefreshCheckLen
    \/ RefreshPop
    \/ RefreshSleep

(***************************************************************************)
(* The main thread: the for loop of the __main__ block, lines 364-366.     *)
(***************************************************************************)
main_city == cities[main_i]

RefreshVars == <<refresh_pc, refresh_i, new_reading, cycle>>

\* line 365, the call: lines 83-109 of simulate_sensor_reading
MainGenerate ==
    /\ main_pc = "gen"
    /\ clock' = clock + 1
    /\ main_reading' = Measurements(main_city, clock', hour, rng)
    /\ rng' = (rng + DrawsPerReading) % NoiseLevels
    /\ main_pc' = "enrich"
    /\ resp' = NoResponse
    /\ UNCHANGED <<store, RefreshVars, main_i, main_loaded, hour, commit_log>>

\* line 365, the rest of the call: lines 112-121
MainEnrich ==
    /\ main_pc = "enrich"
    /\ main_reading' = Enrich(main_reading)
    /\ main_pc' = "setcur"
    /\ resp' = NoResponse
    /\ UNCHANGED <<store, RefreshVars, main_i, main_loaded, clock, rng, hour, commit_log>>

\* line 365, the store
MainSetCurrent ==
    /\ main_pc = "setcur"
    /\ current_readings' = SetItem(current_readings, main_city, main_reading)
    /\ commit_log' = [commit_log EXCEPT ![main_city] = Append(@, main_reading)]
    /\ main_pc' = "load"
    /\ resp' = NoResponse
    /\ UNCHANGED <<reading_history, RefreshVars, main_i, main_reading, main_loaded, clock, rng, hour>>

\* line 366, the right-hand side: current_readings[city]
MainLoadCurrent ==
    /\ main_pc = "load"
    /\ main_loaded' = current_readings[main_city]
    /\ main_pc' = "sethist"
    /\ resp' = NoResponse
    /\ UNCHANGED <<store, RefreshVars, main_i, main_reading, clock, rng, hour, commit_log>>

\* line 366, the store, and the end of the for body; after the last city
\* app.run serves requests (line 369)
MainSetHistory ==
    /\ main_pc = "sethist"
    /\ reading_history' = SetItem(reading_history, main_city, <<main_loaded>>)
    /\ IF main_i < Len(cities)
       THEN /\ main_i' = main_i + 1
            /\ main_pc' = "gen"
       ELSE /\ main_i' = main_i
            /\ main_pc' = "serving"
    /\ resp' = NoResponse
    /\ UNCHANGED <<current_readings, RefreshVars, main_reading, main_loaded, clock, rng, hour, commit_log>>

Main ==
    \/ MainGenerate
    \/ MainEnrich
    \/ MainSetCurrent
    \/ MainLoadCurrent
    \/ MainSetHistory

(***************************************************************************)
(* Request handlers.  A handler runs when the server serves: at once when  *)
(* the module was imported, after the __main__ block reached app.run       *)
(* otherwise.  Each is one step that reads the dictionaries.               *)
(***************************************************************************)
Serving == main_pc \in {"imported", "serving"}

NotFound == [error |-> "City not found"]

\* lines 154-157
get_current_readings ==
    [city |-> "", route |-> "/api/current", status |-> 200, body |-> current_readings]

\* mutant of get_city_reading: jsonify(current_readings.get(city))
get_city_reading_or_null(city) ==
    [city |-> city, route |-> "/api/current/<city>", status |-> 200,
     body |-> IF city \in DOMAIN current_readings THEN current_readings[city] ELSE NoReading]

\* lines 159-164
get_city_reading(city) ==
    IF city \in DOMAIN current_readings
    THEN [city |-> city, route |-> "/api/current/<city>", status |-> 200, body |-> current_readings[city]]
    ELSE [city |-> city, route |-> "/api/current/<city>", status |-> 404, body |-> NotFound]

\* lines 166-169
get_history ==
    [city |-> "", route |-> "/api/history", status |-> 200, body |-> reading_history]

\* mutant of get_city_history: the slice [:20], the oldest readings
get_city_history_oldest(city) ==
    IF city \in DOMAIN reading_history
    THEN [city |-> city, route |-> "/api/history/<city>", status |-> 200,
          body |-> SubSeq(reading_history[city], 1, Min(HISTORY_SLICE, Len(reading_history[city])))]
    ELSE [city |-> city, route |-> "/api/history/<city>", status |-> 404, body |-> NotFound]

\* lines 171-176
get_city_history(city) ==
    IF city \in DOMAIN reading_history
    THEN [city |-> city, route |-> "/api/history/<city>", status |-> 200,
          body |-> LastN(reading_history[city], HISTORY_SLICE)]
    ELSE [city |-> city, route |-> "/api/history/<city>", status |-> 404, body |-> NotFound]

\* the cities of current_readings in the order of their insertion, which is
\* the order of the list: both writers go through the cities in that order
CurrentCities == SelectSeq(cities, LAMBDA c : c \in DOMAIN current_readings)

\* lines 214-220: the alerts of one reading, each with city and timestamp
RECURSIVE AlertsOfReading(_, _, _)
AlertsOfReading(city, reading, k) ==
    IF k > Len(reading.alerts) THEN <<>>
    ELSE <<[city |-> city, pollutant |-> reading.alerts[k].pollutant,
            value |-> reading.alerts[k].value, threshold |-> reading.alerts[k].threshold,
            severity |-> reading.alerts[k].severity, timestamp |-> reading.timestamp]>>
         \o AlertsOfReading(city, reading, k + 1)

RECURSIVE AlertsFromCity(_)
AlertsFromCity(i) ==
    IF i > Len(CurrentCities) THEN <<>>
    ELSE AlertsOfReading(CurrentCities[i], current_readings[CurrentCities[i]], 1)
         \o AlertsFromCity(i + 1)

\* lines 209-221
get_active_alerts ==
    [city |-> "", route |-> "/api/alerts", status |-> 200, body |-> AlertsFromCity(1)]

\* sum(...) of a list of numbers, from position i on
RECURSIVE SumFrom(_, _)
SumFrom(lst, i) == IF i > Len(lst) THEN 0 ELSE lst[i] + SumFrom(lst, i + 1)

\* round(total / n, 1) on hundredths: to the nearest tenth, ties to even
RoundedAverage(total, n) ==
    LET t == total \div (10 * n)
        r == total - 10 * n * t
    IN  IF 2 * r < 10 * n THEN t * 10
        ELSE IF 2 * r > 10 * n THEN (t + 1) * 10
        ELSE IF t % 2 = 0 THEN t * 10 ELSE (t + 1) * 10

\* min(..., key=PM2_5) and max(..., key=PM2_5): the first city in iteration
\* order with the least, the greatest, value
BestCity ==
    CurrentCities[CHOOSE i \in 1..Len(CurrentCities) :
        \A j \in 1..Len(CurrentCities) :
            LET a == current_readings[CurrentCities[i]].PM2_5
                b == current_readings[CurrentCities[j]].PM2_5
            IN  a < b \/ (a = b /\ i <= j)]

WorstCity ==
    CurrentCities[CHOOSE i \in 1..Len(CurrentCities) :
        \A j \in 1..Len(CurrentCities) :
            LET a == current_readings[CurrentCities[i]].PM2_5
                b == current_readings[CurrentCities[j]].PM2_5
            IN  a > b \/ (a = b /\ i <= j)]

\* lines 297-324; system_uptime, a string made from the wall clock, is left out
get_system_stats ==
    LET HistoryCities == SelectSeq(cities, LAMBDA c : c \in DOMAIN reading_history)
        lengths       == [i \in 1..Len(HistoryCities) |-> Len(reading_history[HistoryCities[i]])]
        alert_counts  == [i \in 1..Len(CurrentCities) |-> Len(current_readings[CurrentCities[i]].alerts)]
        aqi_values    == [i \in 1..Len(CurrentCities) |-> current_readings[CurrentCities[i]].PM2_5]
    IN  [city |-> "", route |-> "/api/stats", status |-> 200,
         body |-> [total_cities   |-> Len(cities),
                   total_readings |-> SumFrom(lengths, 1),
                   active_alerts  |-> SumFrom(alert_counts, 1),
                   average_aqi    |-> IF Len(aqi_values) > 0
                                      THEN RoundedAverage(SumFrom(aqi_values, 1), Len(aqi_values))
                                      ELSE 0,
                   best_city      |-> IF Len(CurrentCities) > 0 THEN BestCity ELSE "N/A",
                   worst_city     |-> IF Len(CurrentCities) > 0 THEN WorstCity ELSE "N/A"]]

\* a request is served: the handler builds its response from the store
Handle(response) ==
    /\ Serving
    /\ resp = NoResponse
    /\ resp' = response
    /\ UNCHANGED <<store, RefreshVars, MainLocals, clock, rng, hour, commit_log>>

Request ==
    \/ Handle(get_current_readings)
    \/ \E city \in CitySet \cup {UnknownCity} : Handle(get_city_reading(city))
    \/ Handle(get_history)
    \/ \E city \in CitySet \cup {UnknownCity} : Handle(get_city_history(city))
    \/ Handle(get_active_alerts)
    \/ Handle(get_system_stats)

Next == Refresh \/ Main \/ Request

Spec == Init /\ [][Next]_vars


(***************************************************************************)
(* Fault injection: simulate_sensor_reading raises.  update_readings has   *)
(* no try/except around line 130, so the exception leaves the for loop and *)
(* the while loop, and the thread ends.                                    *)
(***************************************************************************)
RefreshGenerateFails ==
    /\ refresh_pc = "gen"
    /\ WithinBounds
    /\ refresh_pc' = "crashed"
    /\ resp' = NoResponse
    /\ UNCHANGED <<store, refresh_i, new_reading, cycle, MainLocals, clock, rng, hour, commit_log>>

NextFault == Next \/ RefreshGenerateFails

SpecFault == Init /\ [][NextFault]_vars

(***************************************************************************)
(* The classifier on its own: POST /api/predict applies predict_aqi to a   *)
(* number the caller supplies.  model_training.py holds a second copy of   *)
(* the classifier and the rule table written to models/aqi_model.json.     *)
(***************************************************************************)
\* the grid of inputs goes from 0 up to this many tenths
MaxPMTenths == 600

\* upper bounds of the buckets of predict_aqi, in hundredths
BucketBounds == {1200, 3540, 5540, 15040, 25040}

\* PM2.5 values a caller supplies: a grid of tenths, the values around
\* every bucket bound, and values at and beyond the last rule of the table
PMValues ==
    {10 * k : k \in 0..MaxPMTenths}
    \cup {b + d : b \in BucketBounds, d \in {-1, 0, 1, 10}}
    \cup {50000, 50040, 50041, 50050, 60000}

\* app.py lines 183-196, for a numeric PM2.5
predict_aqi_endpoint(pm25) ==
    LET aqi == predict_aqi(pm25)
    IN  [city |-> "", route |-> "/api/predict", status |-> 200,
         body |-> [prediction |-> aqi.category, color |-> aqi.color,
                   description |-> aqi.description, pm25 |-> pm25]]

\* model_training.py lines 41-54
training_predict_aqi(pm25) ==
    IF pm25 <= 1200 THEN [category |-> "Good", color |-> "#00E400"]
    ELSE IF pm25 <= 3540 THEN [category |-> "Moderate", color |-> "#FFFF00"]
    ELSE IF pm25 <= 5540 THEN [category |-> "Unhealthy for Sensitive Groups", color |-> "#FF7E00"]
    ELSE IF pm25 <= 15040 THEN [category |-> "Unhealthy", color |-> "#FF0000"]
    ELSE IF pm25 <= 25040 THEN [category |-> "Very Unhealthy", color |-> "#8F3F97"]
    ELSE [category |-> "Hazardous", color |-> "#7E0023"]

\* model_training.py lines 64-71: model_info['rules'], in dict order
MODEL_RULES ==
    <<[category |-> "Good", PM2_5_max |-> 1200, color |-> "#00E400"],
      [category |-> "Moderate", PM2_5_max |-> 3540, color |-> "#FFFF00"],
      [category |-> "Unhealthy for Sensitive Groups", PM2_5_max |-> 5540, color |-> "#FF7E00"],
      [category |-> "Unhealthy", PM2_5_max |-> 15040, color |-> "#FF0000"],
      [category |-> "Very Unhealthy", PM2_5_max |-> 25040, color |-> "#8F3F97"],
      [category |-> "Hazardous", PM2_5_max |-> 50040, color |-> "#7E0023"]>>

PredictRequest ==
    /\ Serving
    /\ resp = NoResponse
    /\ \E pm25 \in PMValues : resp' = predict_aqi_endpoint(pm25)
    /\ UNCHANGED <<store, RefreshVars, MainLocals, clock, rng, hour, commit_log>>

SpecClassifier == Init /\ [][PredictRequest]_vars

(***************************************************************************)
(* The alert evaluator on its own: the refresh thread is inside            *)
(* simulate_sensor_reading with a dict of measurements drawn from values   *)
(* at, just above, at 1.5 times and just above 1.5 times every threshold,  *)
(* and runs lines 112-119.                                                 *)
(***************************************************************************)
\* values of one pollutant around its threshold t
AlertLevels(t) == {t, t + 1, (3 * t) \div 2, (3 * t) \div 2 + 1}

AlertInputs ==
    [city : {"New York"}, timestamp : {1},
     PM2_5 : AlertLevels(3500) \cup {3600, 5300},
     PM10 : AlertLevels(5000),
     NO2 : AlertLevels(4000),
     CO : AlertLevels(200),
     SO2 : AlertLevels(2000),
     O3 : {3500}, Temperature : {2200}, Humidity : {6000}]

InitAlerts ==
    /\ current_readings = EmptyDict
    /\ reading_history = EmptyDict
    /\ refresh_pc = "enrich"
    /\ refresh_i = 1
    /\ new_reading \in AlertInputs
    /\ cycle = 1
    /\ main_pc = "imported"
    /\ main_i = 1
    /\ main_reading = NoReading
    /\ main_loaded = NoReading
    /\ clock = 1
    /\ rng = 0
    /\ hour = 12
    /\ resp = NoResponse
    /\ commit_log = [c \in CitySet |-> <<>>]

SpecAlerts == InitAlerts /\ [][RefreshEnrich]_vars

(***************************************************************************)
(* The refresh loop under a fair scheduler, in a process that imported the *)
(* module: the thread started on line 145 is daemon and is never joined or *)
(* stopped, and no lock can hold it back, so whenever it has a step to     *)
(* take it eventually takes it.                                            *)
(***************************************************************************)
InitImported == Init /\ main_pc = "imported"

NextLive == Refresh \/ Request

SpecLive == InitImported /\ [][NextLive]_vars /\ WF_vars(Refresh)

(***************************************************************************)
(* The commit of one reading, lines 131-138 run without interruption, as a *)
(* function of the two dictionaries, and a harness that applies it twice   *)
(* in a row with one reading to a store the program has produced, at a     *)
(* moment when neither thread is inside a commit.                          *)
(***************************************************************************)
\* mutant of commit: a reading equal to the newest entry is not appended again
commit_dedup(cur, hist, city, reading) ==
    LET h0 == IF city \notin DOMAIN hist THEN <<>> ELSE hist[city]
        h1 == IF Len(h0) >= 1 /\ h0[Len(h0)] = reading THEN h0 ELSE Append(h0, reading)
        h2 == IF Len(h1) > MAX_HISTORY THEN PopFirst(h1) ELSE h1
    IN  [current |-> SetItem(cur, city, reading), history |-> SetItem(hist, city, h2)]

commit(cur, hist, city, reading) ==
    LET h0 == IF city \notin DOMAIN hist THEN <<>> ELSE hist[city]
        h1 == Append(h0, reading)
        h2 == IF Len(h1) > MAX_HISTORY THEN PopFirst(h1) ELSE h1
    IN  [current |-> SetItem(cur, city, reading), history |-> SetItem(hist, city, h2)]

Recommit ==
    /\ refresh_pc \in {"gen", "sleep"}
    /\ main_pc \in {"imported", "gen", "serving"}
    /\ resp = NoResponse
    /\ \E city \in CitySet :
          \E reading \in {simulate_sensor_reading(city, clock + 1, hour, rng)}
                         \cup {current_readings[c] : c \in DOMAIN current_readings \cap {city}} :
              LET once  == commit(current_readings, reading_history, city, reading)
                  twice == commit(once.current, once.history, city, reading)
              IN  /\ current_readings' = twice.current
                  /\ reading_history' = twice.history
                  /\ commit_log' = [commit_log EXCEPT ![city] = Append(Append(@, reading), reading)]
    /\ refresh_pc' = "halt"
    /\ main_pc' = "halt"
    /\ resp' = NoResponse
    /\ UNCHANGED <<new_reading, RefreshLocals, main_i, main_reading, main_loaded, clock, rng, hour>>

SpecRecommit == Init /\ [][Next \/ Recommit]_vars

(***************************************************************************)
(* Properties.                                                             *)
(***************************************************************************)
Imported == main_pc = "imported"

\* the refresh thread is between line 131 and the end of the for body for c
MidCommit(c) == refresh_city = c /\ refresh_pc \in {"chk", "append", "len", "pop"}

\* the main thread is between line 365 and the end of line 366 for c
MainMidCommit(c) == main_city = c /\ main_pc \in {"load", "sethist"}

Complete(reading) == DOMAIN reading = ReadingKeys

\* the last n elements of a list, oldest first, written out index by index
Newest(lst, n) ==
    LET m == IF n < Len(lst) THEN n ELSE Len(lst)
    IN  [i \in 1..m |-> lst[Len(lst) - m + i]]

\* C1: for every city, in every reachable state (the states between the
\* append and the eviction of one commit included), the length of the
\* city's history is at most 50.
C1_HistoryAtMostMax ==
    \A c \in DOMAIN reading_history : Len(reading_history[c]) <= MAX_HISTORY

\* C2: after k sequential commits for one city starting from an empty
\* history, the city's history holds exactly the last min(k, 50) committed
\* readings, in commit order, oldest first.  Sequential commits from an
\* empty history are those of the imported module; the history is compared
\* whenever no commit for the city is in progress.
C2_HistoryIsNewestCommitted ==
    \A c \in CitySet :
        (Imported /\ ~MidCommit(c)) =>
            IF commit_log[c] = <<>>
            THEN c \notin DOMAIN reading_history
            ELSE /\ c \in DOMAIN reading_history
                 /\ reading_history[c] = Newest(commit_log[c], 50)

\* witness of C2: 60 commits for one city, none in progress
C2_Witness ==
    \E c \in CitySet :
        /\ Imported
        /\ ~MidCommit(c)
        /\ Len(commit_log[c]) = 60
        /\ c \in DOMAIN reading_history
        /\ Len(reading_history[c]) = 50
        /\ reading_history[c][1] = commit_log[c][11]

\* the entries of every history are in strictly increasing generation order
HistoryInGenerationOrder ==
    \A c \in DOMAIN reading_history :
        \A i \in 1..(Len(reading_history[c]) - 1) :
            reading_history[c][i].timestamp < reading_history[c][i + 1].timestamp

\* a step never replaces a current reading by one generated earlier
CurrentNeverOlder ==
    \A c \in DOMAIN current_readings :
        c \in DOMAIN current_readings' =>
            current_readings'[c].timestamp >= current_readings[c].timestamp

\* C3: for every city and in every reachable state the entries of the
\* city's history are in strictly increasing generation order, and the
\* city's current reading is never replaced by a reading generated earlier
\* than the one it replaces, also while the start-up initialisation runs
\* alongside the refresh thread.
C3_GenerationOrder == []HistoryInGenerationOrder /\ [][CurrentNeverOlder]_vars

\* C4: exactly one writer performs commits: every write to a current slot
\* or a history is a step of the refresh loop, and no two commits for the
\* same city are in progress at the same time.
C4_SingleWriter ==
    /\ [][store' # store => refresh_pc' # refresh_pc]_vars
    /\ [](\A c \in CitySet : ~(MidCommit(c) /\ MainMidCommit(c)))

\* C5: if generating a reading fails for one city during a refresh cycle,
\* the loop does not stop: the thread goes on to the next city (or to the
\* sleep after the last one) and leaves the city's current reading and
\* history unchanged.
C5_FailureDoesNotStopLoop ==
    [][(refresh_pc = "gen" /\ refresh_pc' # "gen" /\ refresh_pc' # "enrich") =>
          /\ store' = store
          /\ IF refresh_i < Len(cities)
             THEN refresh_pc' = "gen" /\ refresh_i' = refresh_i + 1
             ELSE refresh_pc' = "sleep"]_vars

\* C6: once a city's current reading has been set it is present in every
\* later state: no step removes a city from current_readings.
C6_CurrentNeverRemoved ==
    [][\A c \in DOMAIN current_readings : c \in DOMAIN current_readings']_vars

\* witness of C6: the server answers a request after the refresh thread and
\* the start-up initialisation have both written every current slot
C6_Witness ==
    /\ main_pc = "serving"
    /\ resp.route = "/api/current"
    /\ DOMAIN current_readings = CitySet
    /\ \A c \in CitySet : Len(commit_log[c]) >= 2

\* every reading a response carries
ResponseReadings ==
    CASE resp.status # 200 -> {}
      [] resp.route = "/api/current" -> {resp.body[c] : c \in DOMAIN resp.body}
      [] resp.route = "/api/current/<city>" -> {resp.body}
      [] resp.route = "/api/history" ->
            UNION {{resp.body[c][i] : i \in 1..Len(resp.body[c])} : c \in DOMAIN resp.body}
      [] resp.route = "/api/history/<city>" -> {resp.body[i] : i \in 1..Len(resp.body)}
      [] OTHER -> {}

\* every reading reachable through a current slot or a history
StoreReadings ==
    {current_readings[c] : c \in DOMAIN current_readings}
    \cup UNION {{reading_history[c][i] : i \in 1..Len(reading_history[c])} : c \in DOMAIN reading_history}

\* C7: a reader never observes a partially-updated reading: every reading
\* reachable through the current slot or the history of a city, and every
\* reading a response carries, has all its measurements, its category,
\* color and description and its alert list.
C7_NoPartialReading ==
    \A r \in StoreReadings \cup ResponseReadings : Complete(r)

\* witness of C7: a request is answered with readings while the refresh
\* thread holds a dict of measurements that is not yet enriched
C7_Witness ==
    /\ refresh_pc = "enrich"
    /\ DOMAIN new_reading = MeasurementKeys
    /\ resp.route = "/api/history"
    /\ ResponseReadings # {}

\* C8: starting from an empty store, after one complete refresh cycle the
\* keys of current_readings (and of the /api/current response) are exactly
\* the configured cities and each city's history holds exactly one entry.
C8_FirstCycle ==
    (Imported /\ cycle = 1 /\ refresh_pc = "sleep") =>
        /\ DOMAIN current_readings = {CityList[i] : i \in 1..NumCities}
        /\ DOMAIN reading_history = {CityList[i] : i \in 1..NumCities}
        /\ \A c \in DOMAIN reading_history : Len(reading_history[c]) = 1
        /\ resp.route = "/api/current" => DOMAIN resp.body = {CityList[i] : i \in 1..NumCities}

\* witness of C8: the first cycle is complete and /api/current is answered
C8_Witness ==
    /\ Imported
    /\ cycle = 1
    /\ refresh_pc = "sleep"
    /\ resp.route = "/api/current"

\* C9: /api/current/<city> for a city with no entry in the store returns
\* 404 'City not found'; after a commit for the city it returns exactly the
\* committed reading, field for field; the store is unchanged.
C9_CurrentOfCity ==
    [][resp'.route = "/api/current/<city>" =>
          /\ store' = store
          /\ IF resp'.city \in CitySet /\ commit_log[resp'.city] # <<>>
             THEN /\ resp'.status = 200
                  /\ resp'.body = commit_log[resp'.city][Len(commit_log[resp'.city])]
             ELSE /\ resp'.status = 404
                  /\ resp'.body = [error |-> "City not found"]]_vars

\* witness of C9: the reading of a city committed once is returned while
\* another configured city has no entry yet
C9_Witness ==
    /\ resp.route = "/api/current/<city>"
    /\ resp.status = 200
    /\ Len(commit_log[resp.city]) = 1
    /\ resp.body = commit_log[resp.city][1]
    /\ \E c \in CitySet : c \notin DOMAIN current_readings

\* limits a caller may ask for
Limits == {1, 20, 50, 1000}

\* C10 as stated: for every limit, the history query returns the most
\* recent min(limit, length) entries of the city's history, oldest first.
C10_HistoryHonoursLimit ==
    (resp.route = "/api/history/<city>" /\ resp.city \in DOMAIN reading_history) =>
        \A limit \in Limits : resp.body = Newest(reading_history[resp.city], limit)

\* C10 amended: the history query takes no limit; it returns the most
\* recent min(20, length) entries of the city's history, oldest first, and
\* 404 'City not found' for a city without history.
C10_HistoryNewest20 ==
    resp.route = "/api/history/<city>" =>
        IF resp.city \in DOMAIN reading_history
        THEN /\ resp.status = 200
             /\ resp.body = Newest(reading_history[resp.city], 20)
        ELSE /\ resp.status = 404
             /\ resp.body = [error |-> "City not found"]

\* witness of C10: a history longer than 20 is answered with 20 entries
C10_Witness ==
    /\ resp.route = "/api/history/<city>"
    /\ resp.status = 200
    /\ Len(reading_history[resp.city]) = 50
    /\ Len(resp.body) = 20
    /\ resp.body[20] = reading_history[resp.city][50]

\* the six categories, by increasing severity
Categories == <<"Good", "Moderate", "Unhealthy for Sensitive Groups", "Unhealthy",
                "Very Unhealthy", "Hazardous">>

Rank(category) == CHOOSE i \in 1..Len(Categories) : Categories[i] = category

\* the bucket table of the classifier, bucket by bucket
InBucket(pm, category) ==
    CASE category = "Good" -> pm <= 1200
      [] category = "Moderate" -> 1200 < pm /\ pm <= 3540
      [] category = "Unhealthy for Sensitive Groups" -> 3540 < pm /\ pm <= 5540
      [] category = "Unhealthy" -> 5540 < pm /\ pm <= 15040
      [] category = "Very Unhealthy" -> 15040 < pm /\ pm <= 25040
      [] category = "Hazardous" -> 25040 < pm

\* C11: predict_aqi maps a PM2.5 value to Good up to 12, Moderate up to
\* 35.4, Unhealthy for Sensitive Groups up to 55.4, Unhealthy up to 150.4,
\* Very Unhealthy up to 250.4 and Hazardous above, upper bounds inclusive
\* (12 Good, 12.1 Moderate, 35.4 Moderate, 35.5 Unhealthy for Sensitive
\* Groups, 500 Hazardous); it is total, and severity is monotonic: for all
\* a <= b the rank of a's category is at most that of b's.
C11_Classifier ==
    resp.route = "/api/predict" =>
        LET pm  == resp.body.pm25
            cat == resp.body.prediction
        IN  /\ resp.status = 200
            /\ \E i \in 1..Len(Categories) : Categories[i] = cat
            /\ InBucket(pm, cat)
            /\ pm = 1200 => cat = "Good"
            /\ pm = 1210 => cat = "Moderate"
            /\ pm = 3540 => cat = "Moderate"
            /\ pm = 3550 => cat = "Unhealthy for Sensitive Groups"
            /\ pm = 50000 => cat = "Hazardous"
            /\ \A a \in PMValues : a <= pm => Rank(predict_aqi(a).category) <= Rank(cat)

\* witness of C11: 12.1 is classified Moderate
C11_Witness ==
    /\ resp.route = "/api/predict"
    /\ resp.body.pm25 = 1210
    /\ resp.body.prediction = "Moderate"

\* rules of the table that cover a value, in table order
CoveringRules(pm) == SelectSeq(MODEL_RULES, LAMBDA rule : rule.PM2_5_max >= pm)

\* C13: for every PM2.5 value the category and color returned by
\* app.predict_aqi equal those of model_training.predict_aqi and those of
\* the first rule of the generated rule table whose PM2.5_max is at least
\* the value, so every value is covered by a rule with the same category.
C13_ClassifierMatchesRules ==
    resp.route = "/api/predict" =>
        LET pm == resp.body.pm25
        IN  /\ resp.body.prediction = training_predict_aqi(pm).category
            /\ resp.body.color = training_predict_aqi(pm).color
            /\ CoveringRules(pm) # <<>>
            /\ CoveringRules(pm)[1].category = resp.body.prediction
            /\ CoveringRules(pm)[1].color = resp.body.color

\* the monitored pollutants in the order of the threshold table
Pollutants == <<"PM2_5", "PM10", "NO2", "CO", "SO2">>

PollutantIndex(p) == CHOOSE i \in 1..Len(Pollutants) : Pollutants[i] = p

ThresholdOf(p) == ALERT_THRESHOLDS[PollutantIndex(p)].threshold

\* the alert list `alerts` is the one the claim describes for `reading`
AlertsAsSpecified(reading, alerts) ==
    /\ \A i \in 1..Len(Pollutants) :
          (\E k \in 1..Len(alerts) : alerts[k].pollutant = Pollutants[i])
              <=> reading[Pollutants[i]] > ThresholdOf(Pollutants[i])
    /\ \A k \in 1..Len(alerts) : \E i \in 1..Len(Pollutants) : alerts[k].pollutant = Pollutants[i]
    /\ \A j, k \in 1..Len(alerts) :
          j < k => PollutantIndex(alerts[j].pollutant) < PollutantIndex(alerts[k].pollutant)
    /\ \A k \in 1..Len(alerts) :
          /\ alerts[k].value = reading[alerts[k].pollutant]
          /\ alerts[k].threshold = ThresholdOf(alerts[k].pollutant)
          /\ alerts[k].severity = IF 2 * alerts[k].value > 3 * alerts[k].threshold
                                  THEN "high" ELSE "medium"

\* C12: check_alerts emits an alert for a monitored pollutant iff the
\* reading's value strictly exceeds its threshold, at most one alert per
\* pollutant and in the order of the threshold table; severity is 'high'
\* exactly when the value is greater than 1.5 times the threshold and
\* 'medium' otherwise (PM2_5 = 36 with the others at threshold gives one
\* medium alert, PM2_5 = 53 a high alert); the reading is not modified.
C12_Alerts ==
    [][(refresh_pc = "enrich" /\ refresh_pc' = "setcur") =>
          /\ AlertsAsSpecified(new_reading, new_reading'.alerts)
          /\ \A key \in DOMAIN new_reading : new_reading'[key] = new_reading[key]
          /\ (new_reading.PM2_5 = 3600 /\ new_reading.PM10 = 5000 /\ new_reading.NO2 = 4000
                /\ new_reading.CO = 200 /\ new_reading.SO2 = 2000) =>
                (Len(new_reading'.alerts) = 1 /\ new_reading'.alerts[1].pollutant = "PM2_5"
                   /\ new_reading'.alerts[1].severity = "medium")
          /\ new_reading.PM2_5 = 5300 =>
                (new_reading'.alerts[1].pollutant = "PM2_5" /\ new_reading'.alerts[1].severity = "high")]_vars

\* witness of C12: PM2_5 = 36 and the others at threshold gave one medium alert
C12_Witness ==
    /\ refresh_pc = "setcur"
    /\ new_reading.PM2_5 = 3600
    /\ new_reading.PM10 = 5000
    /\ new_reading.NO2 = 4000
    /\ new_reading.CO = 200
    /\ new_reading.SO2 = 2000
    /\ Len(new_reading.alerts) = 1
    /\ new_reading.alerts[1].severity = "medium"

\* the readings ever written to the current slot of city c, as written
Committed(c) == {commit_log[c][i] : i \in 1..Len(commit_log[c])}

\* the reading carries the enrichment of its own measured values
ConsistentlyEnriched(reading) ==
    /\ reading.AQI_Category = predict_aqi(reading.PM2_5).category
    /\ reading.AQI_Color = predict_aqi(reading.PM2_5).color
    /\ reading.AQI_Description = predict_aqi(reading.PM2_5).description
    /\ InBucket(reading.PM2_5, reading.AQI_Category)
    /\ reading.alerts = check_alerts(reading)
    /\ AlertsAsSpecified(reading, reading.alerts)
    /\ reading.PM2_5 >= 500
    /\ reading.PM10 >= 1000
    /\ reading.NO2 >= 500
    /\ reading.CO >= 10
    /\ reading.SO2 >= 100
    /\ reading.O3 >= 1000

\* every current reading is consistently enriched and is the reading as it
\* was last written to its slot
CurrentConsistent ==
    \A c \in DOMAIN current_readings :
        /\ ConsistentlyEnriched(current_readings[c])
        /\ current_readings[c] = commit_log[c][Len(commit_log[c])]

\* a step leaves the entries of every history as they are: a history stays,
\* loses its oldest entry, or ends in one new entry that is consistently
\* enriched and equal to a reading as it was committed
HistoryEntriesKept ==
    \A c \in DOMAIN reading_history' :
        LET new == reading_history'[c]
            n   == Len(new)
        IN  \/ c \in DOMAIN reading_history /\ new = reading_history[c]
            \/ /\ c \in DOMAIN reading_history
               /\ Len(reading_history[c]) >= 1
               /\ new = Tail(reading_history[c])
            \/ c \notin DOMAIN reading_history /\ n = 0
            \/ /\ n >= 1
               /\ ConsistentlyEnriched(new[n])
               /\ new[n] \in Committed(c)'
               /\ \/ n = 1
                  \/ /\ c \in DOMAIN reading_history
                     /\ n = Len(reading_history[c]) + 1
                     /\ SubSeq(new, 1, n - 1) = reading_history[c]

\* C14: every reading held in a city's current slot or history is enriched
\* consistently and never changed after it is committed: category, color
\* and description are those of its PM2_5 value, its alerts those of its
\* pollutant values, and the floored fields are at or above their floors.
\* Current readings are checked in every state; a history entry is checked
\* when it enters the history, and every step keeps the entries it had.
C14_ReadingsConsistent == []CurrentConsistent /\ [][HistoryEntriesKept]_vars

\* witness of C14: a history holds several readings, one of them in a
\* category other than Good and carrying an alert
C14_Witness ==
    \E c \in DOMAIN reading_history :
        /\ Len(reading_history[c]) >= 3
        /\ \E i \in 1..Len(reading_history[c]) :
              /\ reading_history[c][i].AQI_Category # "Good"
              /\ Len(reading_history[c][i].alerts) >= 1

\* C15: a reading appended to a city's history leaves it only by eviction on
\* capacity overflow: a step either keeps the entries of a history (possibly
\* appending one), or removes exactly the oldest entry of a history longer
\* than 50; no other step drops or replaces entries.
C15_OnlyEvictionRemoves ==
    [][\A c \in DOMAIN reading_history :
          /\ c \in DOMAIN reading_history'
          /\ LET old == reading_history[c]
                 new == reading_history'[c]
             IN  \/ /\ Len(new) >= Len(old)
                    /\ SubSeq(new, 1, Len(old)) = old
                 \/ /\ Len(old) > MAX_HISTORY
                    /\ new = Tail(old)]_vars

\* C18: whenever no commit is in progress (the refresh loop sleeps between
\* cycles and the start-up initialisation has finished), every city that
\* has a current reading has it as the newest entry of its history.
C18_CurrentIsNewestInHistory ==
    (refresh_pc = "sleep" /\ main_pc \in {"imported", "serving"}) =>
        \A c \in DOMAIN current_readings :
            /\ c \in DOMAIN reading_history
            /\ Len(reading_history[c]) >= 1
            /\ reading_history[c][Len(reading_history[c])] = current_readings[c]

\* the refresh thread has stored the reading of cities[i] in the present cycle
CommittedThisCycle(i) ==
    \/ refresh_pc = "sleep"
    \/ i < refresh_i
    \/ i = refresh_i /\ refresh_pc \in {"chk", "append", "len", "pop"}

\* in every cycle the cities are committed in the order of the list, each
\* exactly once: the cities up to the loop's position have one commit per
\* cycle begun, the others one per cycle finished
CommitsInListOrder ==
    \A i \in 1..Len(cities) :
        Len(commit_log[cities[i]]) = IF CommittedThisCycle(i) THEN cycle ELSE cycle - 1

\* the loop has run all the cycles explored and sleeps
AllCyclesDone ==
    /\ refresh_pc = "sleep"
    /\ cycle = MaxCycles
    /\ \A c \in CitySet : Len(commit_log[c]) = MaxCycles

\* C16: the refresh loop never terminates on its own: under weak fairness
\* of the refresh thread every city is committed again and again (here: in
\* every one of the MaxCycles cycles explored, none of which the loop fails
\* to finish), and within each cycle the cities are committed in the order
\* of the configured list, each exactly once, before the loop sleeps.
C16_RefreshForever ==
    /\ []CommitsInListOrder
    /\ <>AllCyclesDone

\* witness of C16: the last cycle explored is complete
C16_Witness == AllCyclesDone /\ resp = NoResponse

\* the city a step has committed to, and the length of its history before
Recommitted(c) == refresh_pc # "halt" /\ refresh_pc' = "halt" /\ commit_log'[c] # commit_log[c]

LenBefore(c) == IF c \in DOMAIN reading_history THEN Len(reading_history[c]) ELSE 0

\* C17 as stated: committing the same reading twice in a row for one city,
\* from any reachable store state, increases the length of the city's
\* history by exactly 2 and leaves the current reading equal to it.
C17_TwoCommitsAddTwo ==
    [][\A c \in CitySet : Recommitted(c) =>
          /\ Len(reading_history'[c]) = LenBefore(c) + 2
          /\ current_readings'[c] = commit_log'[c][Len(commit_log'[c])]]_vars

\* C17 amended: committing the same reading twice in a row appends it twice
\* (no deduplication) and keeps the newest 50 entries: the length becomes
\* min(length + 2, 50), the two newest entries are both that reading, the
\* entries before them are the newest of the old history, and the current
\* reading equals that reading.
C17_TwoCommitsAppendTwice ==
    [][\A c \in CitySet : Recommitted(c) =>
          LET reading == commit_log'[c][Len(commit_log'[c])]
              old     == IF c \in DOMAIN reading_history THEN reading_history[c] ELSE <<>>
              new     == reading_history'[c]
              n       == Len(new)
          IN  /\ n = Min(Len(old) + 2, MAX_HISTORY)
              /\ new[n] = reading
              /\ new[n - 1] = reading
              /\ \A i \in 1..(n - 2) : new[i] = old[Len(old) + 2 - n + i]
              /\ current_readings'[c] = reading
              /\ \A d \in CitySet \ {c} :
                    /\ d \in DOMAIN reading_history' <=> d \in DOMAIN reading_history
                    /\ d \in DOMAIN reading_history => reading_history'[d] = reading_history[d]]_vars

\* witness of C17: the reading was committed twice to a full history
C17_Witness ==
    /\ refresh_pc = "halt"
    /\ \E c \in DOMAIN reading_history :
          /\ Len(commit_log[c]) > MAX_HISTORY + 2
          /\ Len(reading_history[c]) = MAX_HISTORY
          /\ reading_history[c][MAX_HISTORY] = reading_history[c][MAX_HISTORY - 1]
          /\ current_readings[c] = reading_history[c][MAX_HISTORY]

\* a step changes what the store holds for city c
Changed(c) ==
    \/ (c \in DOMAIN current_readings') # (c \in DOMAIN current_readings)
    \/ (c \in DOMAIN reading_history') # (c \in DOMAIN reading_history)
    \/ c \in DOMAIN current_readings /\ c \in DOMAIN current_readings'
         /\ current_readings'[c] # current_readings[c]
    \/ c \in DOMAIN reading_history /\ c \in DOMAIN reading_history'
         /\ reading_history'[c] # reading_history[c]

\* C19: a commit for one city leaves every other city's current reading and
\* history unchanged (a step changes only the entries of the city the
\* stepping thread is committing), and every query (current, current of all,
\* history, history of all, alerts, stats) leaves the whole store unchanged.
C19_CommitsAndQueriesAreLocal ==
    [][/\ \A c \in CitySet : Changed(c) =>
             \/ RefreshVars' # RefreshVars /\ c = refresh_city
             \/ MainLocals' # MainLocals /\ c = main_city
       /\ resp' # NoResponse => store' = store]_vars

\* witness of C19: a stats query answered between the commits of the first
\* and of the second city of a cycle, the second city's entries still those
\* of the cycle before
C19_Witness ==
    /\ resp.route = "/api/stats"
    /\ resp.body.total_readings >= 3
    /\ refresh_i = 1
    /\ refresh_pc = "len"
    /\ DOMAIN reading_history = CitySet
    /\ Len(reading_history[cities[1]]) = Len(reading_history[cities[2]]) + 1
    /\ current_readings[cities[1]].timestamp > current_readings[cities[2]].timestamp

====
